---- MODULE Spec2Model ----
(***************************************************************************)
(* ChromaLens colour analysis (utils/colorAnalysis): the colour-space      *)
(* converters (rgbToHex, hexToRgb, rgbToHsl), the classifier               *)
(* (categorizeColor, isAccentColor) and the palette extractor              *)
(* (extractColors), modelled as a state machine.                           *)
(*                                                                         *)
(* Strings are sequences of one-character strings.  Fractions (the         *)
(* saturation and lightness of an HSL) are records [n, d] with d > 0,      *)
(* compared by cross-multiplication.  The pixel buffer `data` is the flat  *)
(* RGBA byte sequence of ImageData; the code's 0-based index i reads       *)
(* data[i + 1] here.                                                       *)
(***************************************************************************)
EXTENDS Integers, Sequences, FiniteSets, TLC

\* ------------------------------------------------------------------ bounds

\* Largest number of pixels of an enumerated raster (width * height).
MaxPixels == 4
\* Largest sample stride (sampleRate) enumerated.
MaxStride == 2
\* Largest palette size (maxColors) enumerated.
MaxPalette == 2
\* Channel values 0..ChanEdge and 255-ChanEdge..255 are enumerated for the
\* converters, besides the multiples of 51.
ChanEdge == 3
\* Longest run of characters enumerated behind the optional '#' of a string
\* given to hexToRgb.
MaxHexLen == 6

\* ------------------------------------------------------- program constants

\* const maxSize = 150
maxSize == 150
\* const quantize = 12
quantize == 12
\* if (a < 200) continue
minAlpha == 200
\* const minDistanceSq = 50 * 50
minDistanceSq == 50 * 50

\* sampleRate: number = 10
defaultSampleRate == 10
\* maxColors: number = 8
defaultMaxColors == 8

\* null, comparable with any record.
NULL == [null |-> TRUE]

\* ------------------------------------------------------------- arithmetic

Max2(a, b) == IF a >= b THEN a ELSE b
Min2(a, b) == IF a <= b THEN a ELSE b

\* Math.max(r, g, b) and Math.min(r, g, b)
Max3(r, g, b) == Max2(r, Max2(g, b))
Min3(r, g, b) == Min2(r, Min2(g, b))

\* A fraction n/d, d > 0.
Frac(n, d) == [n |-> n, d |-> d]
FracLeq(x, y) == x.n * y.d <= y.n * x.d

\* Math.round of the fraction n/d (n >= 0, d > 0): the nearest integer, a
\* half rounding up.  The code rounds a double; the double and the exact
\* quotient round alike unless n/d is exactly a half-integer, which it is for
\* none of the colours enumerated below.
MathRound(n, d) == (2 * n + d) \div (2 * d)

\* --------------------------------------------------- Color Space Converter

HexDigits == <<"0", "1", "2", "3", "4", "5", "6", "7",
               "8", "9", "a", "b", "c", "d", "e", "f">>

LowerHex == {HexDigits[k] : k \in 1..16}
UpperHex == {"A", "B", "C", "D", "E", "F"}

\* Number.prototype.toString(16) of an integer n >= 0.
RECURSIVE ToString16(_)
ToString16(n) ==
    IF n < 16 THEN <<HexDigits[n + 1]>>
    ELSE Append(ToString16(n \div 16), HexDigits[(n % 16) + 1])

\* '#' + (r << 16 + g << 8 + b).toString(16): the padding bit 1 << 24 and
\* the slice(1) that drops it are left out, so leading zeros are lost.
rgbToHexNoPad(rgb) ==
    <<"#">> \o ToString16(rgb.r * 65536 + rgb.g * 256 + rgb.b)

\* '#' + ((1 << 24) + (r << 16) + (g << 8) + b).toString(16).slice(1)
rgbToHex(rgb) ==
    <<"#">> \o Tail(ToString16(16777216 + rgb.r * 65536 + rgb.g * 256 + rgb.b))

\* The value of one hex digit, either case (parseInt(.., 16)).
HexValue(c) ==
    IF c \in LowerHex
    THEN (CHOOSE k \in 1..16 : HexDigits[k] = c) - 1
    ELSE CASE c = "A" -> 10 [] c = "B" -> 11 [] c = "C" -> 12
           [] c = "D" -> 13 [] c = "E" -> 14 [] c = "F" -> 15

\* parseInt of a two-digit hex string
ParseInt16(s) == 16 * HexValue(s[1]) + HexValue(s[2])

\* hexToRgb with the pattern's i flag left out: upper-case digits do not
\* match.
hexToRgbCaseSensitive(hex) ==
    LET body == IF Len(hex) > 0 /\ hex[1] = "#" THEN Tail(hex) ELSE hex
        matches == /\ Len(body) = 6
                   /\ \A k \in 1..6 : body[k] \in LowerHex
    IN  IF matches
        THEN [r |-> ParseInt16(SubSeq(body, 1, 2)),
              g |-> ParseInt16(SubSeq(body, 3, 4)),
              b |-> ParseInt16(SubSeq(body, 5, 6))]
        ELSE NULL

\* /^#?([a-f\d]{2})([a-f\d]{2})([a-f\d]{2})$/i.exec(hex), then parseInt of
\* each group; null when the pattern does not match.
hexToRgb(hex) ==
    LET body == IF Len(hex) > 0 /\ hex[1] = "#" THEN Tail(hex) ELSE hex
        matches == /\ Len(body) = 6
                   /\ \A k \in 1..6 : body[k] \in LowerHex \cup UpperHex
    IN  IF matches
        THEN [r |-> ParseInt16(SubSeq(body, 1, 2)),
              g |-> ParseInt16(SubSeq(body, 3, 4)),
              b |-> ParseInt16(SubSeq(body, 5, 6))]
        ELSE NULL

\* The hue, in sixtieths of a turn times d: the numerator over d = max - min
\* of h * 360 before Math.round.  `switch (max)` takes the first case that
\* equals max: r, then g, then b.
HueNumerator(r, g, b) ==
    LET max == Max3(r, g, b)
        d == max - Min3(r, g, b)
    IN  IF max = r THEN 60 * (g - b) + (IF g < b THEN 360 * d ELSE 0)
        ELSE IF max = g THEN 60 * (b - r) + 120 * d
        ELSE 60 * (r - g) + 240 * d

\* rgbToHsl without the wraparound add `(g < b ? 6 : 0)` of the red sector.
rgbToHslNoWrap(rgb) ==
    LET max == Max3(rgb.r, rgb.g, rgb.b)
        min == Min3(rgb.r, rgb.g, rgb.b)
        d == max - min
        l == Frac(max + min, 2 * 255)
        num == IF max = rgb.r THEN 60 * (rgb.g - rgb.b)
               ELSE HueNumerator(rgb.r, rgb.g, rgb.b)
    IN  IF max = min
        THEN [h |-> 0, s |-> Frac(0, 1), l |-> l]
        ELSE [h |-> MathRound(num, d),
              s |-> IF max + min > 255
                    THEN Frac(d, 2 * 255 - max - min)
                    ELSE Frac(d, max + min),
              l |-> l]

\* rgbToHsl: channels are divided by 255; the common factor 255 cancels in
\* the hue and in the saturation, and l = (max + min) / 2 is (max+min)/510.
rgbToHsl(rgb) ==
    LET max == Max3(rgb.r, rgb.g, rgb.b)
        min == Min3(rgb.r, rgb.g, rgb.b)
        d == max - min
        l == Frac(max + min, 2 * 255)
    IN  IF max = min
        THEN [h |-> 0, s |-> Frac(0, 1), l |-> l]
        ELSE [h |-> MathRound(HueNumerator(rgb.r, rgb.g, rgb.b), d),
              s |-> IF max + min > 255
                    THEN Frac(d, 2 * 255 - max - min)
                    ELSE Frac(d, max + min),
              l |-> l]

\* -------------------------------------------------------------- Classifier

\* categorizeColor with the first rule's saturation test strict (s < 0.18).
categorizeColorStrictSat(hsl) ==
    IF \/ ~FracLeq(Frac(18, 100), hsl.s)
       \/ FracLeq(hsl.l, Frac(12, 100))
       \/ FracLeq(Frac(95, 100), hsl.l)
    THEN "Neutral"
    ELSE IF (hsl.h >= 0 /\ hsl.h < 90) \/ (hsl.h >= 315 /\ hsl.h <= 360)
    THEN "Warm"
    ELSE "Cool"

\* categorizeColor with the second warm range opened at its lower end
\* (h > 315).
categorizeColorWarmAbove315(hsl) ==
    IF \/ FracLeq(hsl.s, Frac(18, 100))
       \/ FracLeq(hsl.l, Frac(12, 100))
       \/ FracLeq(Frac(95, 100), hsl.l)
    THEN "Neutral"
    ELSE IF (hsl.h >= 0 /\ hsl.h < 90) \/ (hsl.h > 315 /\ hsl.h <= 360)
    THEN "Warm"
    ELSE "Cool"

categorizeColor(hsl) ==
    IF \/ FracLeq(hsl.s, Frac(18, 100))
       \/ FracLeq(hsl.l, Frac(12, 100))
       \/ FracLeq(Frac(95, 100), hsl.l)
    THEN "Neutral"
    ELSE IF (hsl.h >= 0 /\ hsl.h < 90) \/ (hsl.h >= 315 /\ hsl.h <= 360)
    THEN "Warm"
    ELSE "Cool"

isAccentColor(hsl) ==
    /\ FracLeq(Frac(45, 100), hsl.s)
    /\ FracLeq(Frac(2, 10), hsl.l)
    /\ FracLeq(hsl.l, Frac(85, 100))

colorDistanceSq(c1, c2) ==
    (c1.r - c2.r) * (c1.r - c2.r) + (c1.g - c2.g) * (c1.g - c2.g)
        + (c1.b - c2.b) * (c1.b - c2.b)

\* ------------------------------------------------------- Palette Extractor

\* Math.floor(side * scale) with scale = Math.min(1, maxSize / Math.max(w, h)).
\* maxSize / 0 is Infinity, so an image without pixels keeps scale 1.  The
\* quotient is exact in floating point for the dimensions enumerated below.
CanvasSide(side, w, h) ==
    IF Max2(w, h) <= maxSize THEN side
    ELSE (side * maxSize) \div Max2(w, h)

\* ctx.getImageData(0, 0, sw, sh) throws IndexSizeError when sw or sh is 0
\* (HTML Standard, canvas pixel manipulation).
GetImageDataThrows(sw, sh) == sw = 0 \/ sh = 0

\* catch (e) { resolve(...) }: the failure is swallowed.
CatchOutcomeResolve == "resolved"

\* catch (e) { reject(e) }
CatchOutcome == "rejected"

\* Math.round(c / quantize) * quantize: to the nearest bucket origin.
QuantizeNearest(c) == ((2 * c + quantize) \div (2 * quantize)) * quantize

\* (c / quantize | 0) * quantize
Quantize(c) == (c \div quantize) * quantize

\* (qr << 16) | (qg << 8) | qb, the channels being below 256
BucketKey(qr, qg, qb) == qr * 65536 + qg * 256 + qb

\* i += 4: the stride is ignored and every pixel is visited.
NextOffsetEveryPixel(offset, rate) == offset + 4

\* i += 4 * sampleRate
NextOffset(offset, rate) == offset + 4 * rate

\* colorCounts.get(key): the position of the entry in the insertion-ordered
\* Map, 0 when there is none.
MapIndex(map, key) ==
    IF \E j \in 1..Len(map) : map[j].key = key
    THEN CHOOSE j \in 1..Len(map) : map[j].key = key
    ELSE 0

\* if (a < 200) continue, without the test: every pixel is counted.
CountPixelAnyAlpha(map, r, g, b, a) ==
    LET qr == Quantize(r)
        qg == Quantize(g)
        qb == Quantize(b)
        key == BucketKey(qr, qg, qb)
        j == MapIndex(map, key)
    IN  IF j > 0
        THEN [map EXCEPT ![j].count = @ + 1]
        ELSE Append(map, [key |-> key, count |-> 1,
                          r |-> qr, g |-> qg, b |-> qb])

\* The loop body with a repeat of a bucket leaving its count alone.
CountPixelNoIncrement(map, r, g, b, a) ==
    IF a < minAlpha THEN map
    ELSE LET qr == Quantize(r)
             qg == Quantize(g)
             qb == Quantize(b)
             key == BucketKey(qr, qg, qb)
             j == MapIndex(map, key)
         IN  IF j > 0
             THEN map
             ELSE Append(map, [key |-> key, count |-> 1,
                               r |-> qr, g |-> qg, b |-> qb])

\* The body of the sampling loop for one pixel.
CountPixel(map, r, g, b, a) ==
    IF a < minAlpha THEN map
    ELSE LET qr == Quantize(r)
             qg == Quantize(g)
             qb == Quantize(b)
             key == BucketKey(qr, qg, qb)
             j == MapIndex(map, key)
         IN  IF j > 0
             THEN [map EXCEPT ![j].count = @ + 1]
             ELSE Append(map, [key |-> key, count |-> 1,
                               r |-> qr, g |-> qg, b |-> qb])

\* Insert x into a list sorted by descending count, behind the entries of
\* equal count (a stable sort) or before them.
RECURSIVE InsertDesc(_, _, _)
InsertDesc(x, sorted, stable) ==
    IF sorted = <<>> THEN <<x>>
    ELSE IF \/ Head(sorted).count > x.count
            \/ (stable /\ Head(sorted).count = x.count)
         THEN <<Head(sorted)>> \o InsertDesc(x, Tail(sorted), stable)
         ELSE <<x>> \o sorted

RECURSIVE SortFrom(_, _, _)
SortFrom(list, sorted, stable) ==
    IF list = <<>> THEN sorted
    ELSE SortFrom(Tail(list), InsertDesc(Head(list), sorted, stable), stable)

\* A sort by descending count that is not stable: entries of equal count
\* come out in reverse insertion order.
SortByDominanceUnstable(map) == SortFrom(map, <<>>, FALSE)

\* Array.from(colorCounts.values()).sort((a, b) => b.count - a.count):
\* Map iteration is in insertion order and Array.prototype.sort is stable
\* (ECMAScript 2019).
SortByDominance(map) == SortFrom(map, <<>>, TRUE)

\* distinctColors.every(..) comparing with the last accepted colour only.
IsDistinctFromLast(distinct, color) ==
    distinct = <<>>
        \/ colorDistanceSq(distinct[Len(distinct)], color) > minDistanceSq

\* distinctColors.some(..) in place of every: far from one accepted colour is
\* enough, and nothing is far from an empty list.
IsDistinctFromSome(distinct, color) ==
    \E j \in 1..Len(distinct) :
        colorDistanceSq(distinct[j], color) > minDistanceSq

\* distinctColors.every(existing => colorDistanceSq(existing, rgb) > minDistanceSq)
IsDistinct(distinct, color) ==
    \A j \in 1..Len(distinct) :
        colorDistanceSq(distinct[j], color) > minDistanceSq

\* if (distinctColors.length > maxColors) break: one entry too many.
PaletteFullOffByOne(distinct, max) == Len(distinct) > max

\* if (distinctColors.length >= maxColors) break
PaletteFull(distinct, max) == Len(distinct) >= max

\* One entry of `all`, from an accepted bucket.
ToColorData(c) ==
    LET rgb == [r |-> c.r, g |-> c.g, b |-> c.b]
        hsl == rgbToHsl(rgb)
    IN  [rgb |-> rgb, hex |-> rgbToHex(rgb), hsl |-> hsl,
         category |-> categorizeColor(hsl), population |-> c.count]

IsWarm(c) == c.category = "Warm"
IsCool(c) == c.category = "Cool"
IsNeutral(c) == c.category = "Neutral"
IsNotWarm(c) == c.category # "Warm"
\* The accent filter made to depend on the category.
IsAccentWarmOnly(c) == isAccentColor(c.hsl) /\ c.category = "Warm"
IsAccent(c) == isAccentColor(c.hsl)

\* The views with `cool` filtered by c.category !== 'Warm'.
PaletteAnalysisCoolNotWarm(distinct) ==
    LET all == [j \in 1..Len(distinct) |-> ToColorData(distinct[j])]
    IN  [all |-> all,
         warm |-> SelectSeq(all, IsWarm),
         cool |-> SelectSeq(all, IsNotWarm),
         neutral |-> SelectSeq(all, IsNeutral),
         accents |-> SelectSeq(all, IsAccent)]

\* The value the promise resolves with.
PaletteAnalysis(distinct) ==
    LET all == [j \in 1..Len(distinct) |-> ToColorData(distinct[j])]
    IN  [all |-> all,
         warm |-> SelectSeq(all, IsWarm),
         cool |-> SelectSeq(all, IsCool),
         neutral |-> SelectSeq(all, IsNeutral),
         accents |-> SelectSeq(all, IsAccent)]

\* The sampling loop from byte offset `offset` to the end of the buffer.
RECURSIVE SampleFrom(_, _, _, _)
SampleFrom(map, pixels, offset, rate) ==
    IF offset < Len(pixels)
    THEN SampleFrom(CountPixel(map, pixels[offset + 1], pixels[offset + 2],
                               pixels[offset + 3], pixels[offset + 4]),
                    pixels, NextOffset(offset, rate), rate)
    ELSE map

\* The filter loop from position k of the ranked list to its break or end.
RECURSIVE FilterFrom(_, _, _, _)
FilterFrom(distinct, sorted, k, max) ==
    IF k <= Len(sorted) /\ ~PaletteFull(distinct, max)
    THEN FilterFrom(IF IsDistinct(distinct, sorted[k])
                    THEN Append(distinct, sorted[k])
                    ELSE distinct,
                    sorted, k + 1, max)
    ELSE distinct

\* A module-level map: what the previous invocation left in it.
KeptMap(old) == old

\* const colorCounts = new Map<...>(), whatever an earlier invocation built.
NewMap(old) == <<>>

\* extractColors as one function of the pixel buffer and its two parameters:
\* the value it resolves with when getImageData succeeds.
extractColors(pixels, rate, max) ==
    PaletteAnalysis(
        FilterFrom(<<>>, SortByDominance(SampleFrom(<<>>, pixels, 0, rate)),
                   1, max))

\* ------------------------------------------------------------------ state

VARIABLES
    pc,              \* "idle", "sampling", "filtering", "resolved", "rejected"
    naturalWidth,    \* imageElement.naturalWidth
    naturalHeight,   \* imageElement.naturalHeight
    sampleRate,      \* the sample stride
    maxColors,       \* the max palette size
    width,           \* canvas.width
    height,          \* canvas.height
    data,            \* imageData.data: RGBA bytes, row-major
    i,               \* the sampling loop's byte index
    colorCounts,     \* the bucket Map, in insertion order
    sortedColors,    \* the ranked bucket list
    next,            \* the position of the filter loop in sortedColors
    distinctColors,  \* the accepted buckets
    result,          \* the PaletteAnalysis the promise resolved with
    error,           \* what the promise rejected with
    calledBefore,    \* an earlier invocation has settled and returned
    rgbIn,           \* converter check: the RGB given
    hexOut,          \* converter check: rgbToHex(rgbIn)
    rgbBack,         \* converter check: hexToRgb(hexOut)
    hslOut,          \* converter check: rgbToHsl(rgbIn)
    convDone,        \* converter check: the conversions applied so far
    hexIn,           \* parser check: the string given to hexToRgb
    rgbParsed,       \* parser check: hexToRgb(hexIn)
    parseDone,       \* parser check: hexToRgb has returned
    hslIn,           \* classifier check: the HSL given to the classifier
    categoryOut,     \* classifier check: categorizeColor(hslIn)
    accentOut,       \* classifier check: isAccentColor(hslIn)
    classDone,       \* classifier check: both functions have returned
    imageSrc,        \* App: the image shown, or null
    palette,         \* App: the PaletteAnalysis shown, or null
    customColors,    \* App: the manually picked colours
    hoverPixel,      \* App: the pixel under the cursor, or null
    selectedPixel,   \* App: the pixel clicked last, or null
    isProcessing,    \* App: an image was accepted and has not loaded yet
    aiAnalysis,      \* App: the mood analysis shown, or null
    isAnalyzingAi,   \* App: the flag set while a request is awaited
    aiRequest,       \* the analyzePaletteMood call awaited, or null
    aiOutcome,       \* how the last analyzePaletteMood call ended
    apiKey           \* process.env.API_KEY is set

extractVars == <<pc, naturalWidth, naturalHeight, sampleRate, maxColors,
                 width, height, data, i, colorCounts, sortedColors, next,
                 distinctColors, result, error, calledBefore>>
convVars == <<rgbIn, hexOut, rgbBack, hslOut, convDone>>
parseVars == <<hexIn, rgbParsed, parseDone>>
classVars == <<hslIn, categoryOut, accentOut, classDone>>
appVars == <<imageSrc, palette, customColors, hoverPixel, selectedPixel,
             isProcessing, aiAnalysis, isAnalyzingAi, aiRequest, aiOutcome,
             apiKey>>
otherVars == <<convVars, parseVars, classVars, appVars>>
vars == <<extractVars, otherVars>>

\* ------------------------------------------------------ enumerated inputs

Red == <<255, 0, 0, 255>>
NearRed == <<250, 5, 5, 255>>
Blue == <<0, 0, 255, 255>>
HalfGreen == <<0, 255, 0, 128>>
Grey == <<128, 128, 128, 200>>

\* The pixels rasters are made of: the four of the 2x2 scenario and a grey
\* whose alpha is the least that counts.
PixelSet == {Red, NearRed, Blue, HalfGreen, Grey}

\* Natural sizes whose canvas has no more than MaxPixels pixels, and two
\* elongated ones whose shorter side scales down to 0.
SmallDims == {d \in (0..MaxPixels) \X (0..MaxPixels) : d[1] * d[2] <= MaxPixels}
LongDims == {<<400, 1>>, <<1, 600>>}
Dims == SmallDims \cup LongDims

\* The RGBA bytes of a list of pixels.
RECURSIVE Flatten(_)
Flatten(pixels) ==
    IF pixels = <<>> THEN <<>> ELSE Head(pixels) \o Flatten(Tail(pixels))

\* The strides and palette sizes enumerated: the small ones and the defaults,
\* which are what the application calls extractColors with.
Strides == (1..MaxStride) \cup {defaultSampleRate}
PaletteSizes == (1..MaxPalette) \cup {defaultMaxColors}

\* Channel values for the converter checks.
Channels == (0..ChanEdge) \cup ((255 - ChanEdge)..255)
                \cup {c \in 0..255 : c % 51 = 0}

NoPalette == NULL
NoError == "none"

\* ---------------------------------------------------------------- actions

ExtractInit ==
    /\ pc = "idle"
    /\ naturalWidth = 0 /\ naturalHeight = 0
    /\ sampleRate = 1 /\ maxColors = 1
    /\ width = 0 /\ height = 0
    /\ data = <<>> /\ i = 0
    /\ colorCounts = <<>> /\ sortedColors = <<>> /\ next = 1
    /\ distinctColors = <<>>
    /\ result = NoPalette /\ error = NoError
    /\ calledBefore = FALSE

ConvIdle ==
    /\ rgbIn = NULL /\ hexOut = <<>> /\ rgbBack = NULL /\ hslOut = NULL
    /\ convDone = {}

ParseIdle == hexIn = <<>> /\ rgbParsed = NULL /\ parseDone = FALSE

ClassIdle ==
    /\ hslIn = NULL /\ categoryOut = "" /\ accentOut = FALSE
    /\ classDone = FALSE

\* The App's state after its first render (App.tsx 9-21), nothing requested.
AppIdle ==
    /\ imageSrc = NULL /\ palette = NULL /\ customColors = <<>>
    /\ hoverPixel = NULL /\ selectedPixel = NULL
    /\ isProcessing = FALSE
    /\ aiAnalysis = NULL /\ isAnalyzingAi = FALSE
    /\ aiRequest = NULL /\ aiOutcome = "none"

Init ==
    /\ ExtractInit /\ ConvIdle /\ ParseIdle /\ ClassIdle /\ AppIdle
    /\ apiKey = TRUE

\* The promise has settled.
Settled == pc \in {"resolved", "rejected"}

\* The state every invocation starts from: its locals are fresh.
Fresh(w, h, rate, max) ==
    /\ naturalWidth' = w /\ naturalHeight' = h
    /\ sampleRate' = rate /\ maxColors' = max
    /\ i' = 0 /\ colorCounts' = NewMap(colorCounts)
    /\ sortedColors' = <<>> /\ next' = 1
    /\ distinctColors' = <<>> /\ result' = NoPalette

\* extractColors, canvas.getContext('2d') returning null:
\* throw new Error("Could not get canvas context").
ExtractNoContext ==
    /\ pc = "idle"
    /\ \E d \in Dims, rate \in Strides, max \in PaletteSizes :
           Fresh(d[1], d[2], rate, max)
    /\ width' = 0 /\ height' = 0 /\ data' = <<>>
    /\ pc' = CatchOutcome /\ error' = "NoContext"
    /\ UNCHANGED <<calledBefore, otherVars>>

\* extractColors on an image whose canvas has no pixels: getImageData throws.
ExtractNoPixels ==
    /\ pc = "idle"
    /\ \E d \in Dims, rate \in Strides, max \in PaletteSizes :
           /\ GetImageDataThrows(CanvasSide(d[1], d[1], d[2]),
                                 CanvasSide(d[2], d[1], d[2]))
           /\ Fresh(d[1], d[2], rate, max)
           /\ width' = CanvasSide(d[1], d[1], d[2])
           /\ height' = CanvasSide(d[2], d[1], d[2])
    /\ data' = <<>>
    /\ pc' = CatchOutcome /\ error' = "IndexSizeError"
    /\ UNCHANGED <<calledBefore, otherVars>>

\* extractColors up to the sampling loop: the canvas is sized, the image is
\* drawn and its pixels are read.
ExtractBegin ==
    /\ pc = "idle"
    /\ \E d \in Dims, rate \in Strides, max \in PaletteSizes :
           LET w == CanvasSide(d[1], d[1], d[2])
               h == CanvasSide(d[2], d[1], d[2])
           IN  /\ ~GetImageDataThrows(w, h)
               /\ Fresh(d[1], d[2], rate, max)
               /\ width' = w /\ height' = h
               /\ \E pixels \in [1..(w * h) -> PixelSet] :
                      data' = Flatten(pixels)
    /\ pc' = "sampling" /\ error' = NoError
    /\ UNCHANGED <<calledBefore, otherVars>>

\* One iteration of for (let i = 0; i < data.length; i += 4 * sampleRate).
SampleStep ==
    /\ pc = "sampling"
    /\ i < Len(data)
    /\ colorCounts' = CountPixel(colorCounts, data[i + 1], data[i + 2],
                                 data[i + 3], data[i + 4])
    /\ i' = NextOffset(i, sampleRate)
    /\ UNCHANGED <<pc, naturalWidth, naturalHeight, sampleRate, maxColors,
                   width, height, data, sortedColors, next, distinctColors,
                   result, error, calledBefore, otherVars>>

\* The loop ends; the buckets are ranked.
Rank ==
    /\ pc = "sampling"
    /\ ~(i < Len(data))
    /\ sortedColors' = SortByDominance(colorCounts)
    /\ next' = 1 /\ distinctColors' = <<>>
    /\ pc' = "filtering"
    /\ UNCHANGED <<naturalWidth, naturalHeight, sampleRate, maxColors, width,
                   height, data, i, colorCounts, result, error, calledBefore, otherVars>>

\* One iteration of for (const color of sortedColors).
FilterStep ==
    /\ pc = "filtering"
    /\ next <= Len(sortedColors)
    /\ ~PaletteFull(distinctColors, maxColors)
    /\ distinctColors' = IF IsDistinct(distinctColors, sortedColors[next])
                         THEN Append(distinctColors, sortedColors[next])
                         ELSE distinctColors
    /\ next' = next + 1
    /\ UNCHANGED <<pc, naturalWidth, naturalHeight, sampleRate, maxColors,
                   width, height, data, i, colorCounts, sortedColors, result,
                   error, calledBefore, otherVars>>

\* The loop ends (break, or the list is exhausted); the result is built and
\* the promise resolves.
Resolve ==
    /\ pc = "filtering"
    /\ next > Len(sortedColors) \/ PaletteFull(distinctColors, maxColors)
    /\ result' = PaletteAnalysis(distinctColors)
    /\ pc' = "resolved"
    /\ UNCHANGED <<naturalWidth, naturalHeight, sampleRate, maxColors, width,
                   height, data, i, colorCounts, sortedColors, next,
                   distinctColors, error, calledBefore, otherVars>>

\* The call is over: its canvas, pixel buffer, bucket map and lists are
\* unreachable, and the next call starts from nothing.
Return ==
    /\ Settled
    /\ pc' = "idle"
    /\ Fresh(0, 0, 1, 1)
    /\ width' = 0 /\ height' = 0 /\ data' = <<>> /\ error' = NoError
    /\ calledBefore' = TRUE
    /\ UNCHANGED otherVars

Next ==
    \/ ExtractNoContext
    \/ ExtractNoPixels
    \/ ExtractBegin
    \/ SampleStep
    \/ Rank
    \/ FilterStep
    \/ Resolve
    \/ Return

Spec == Init /\ [][Next]_vars

\* ----------------------------------------------- converter specification

ConvInit ==
    /\ ExtractInit
    /\ rgbIn \in [r : Channels, g : Channels, b : Channels]
    /\ hexOut = <<>> /\ rgbBack = NULL /\ hslOut = NULL
    /\ convDone = {}
    /\ ParseIdle /\ ClassIdle /\ AppIdle /\ apiKey = TRUE

ToHex ==
    /\ "hex" \notin convDone
    /\ hexOut' = rgbToHex(rgbIn)
    /\ convDone' = convDone \cup {"hex"}
    /\ UNCHANGED <<extractVars, parseVars, classVars, appVars, rgbIn,
                   rgbBack, hslOut>>

FromHex ==
    /\ "hex" \in convDone /\ "back" \notin convDone
    /\ rgbBack' = hexToRgb(hexOut)
    /\ convDone' = convDone \cup {"back"}
    /\ UNCHANGED <<extractVars, parseVars, classVars, appVars, rgbIn,
                   hexOut, hslOut>>

ToHsl ==
    /\ "hsl" \notin convDone
    /\ hslOut' = rgbToHsl(rgbIn)
    /\ convDone' = convDone \cup {"hsl"}
    /\ UNCHANGED <<extractVars, parseVars, classVars, appVars, rgbIn,
                   hexOut, rgbBack>>

ConvNext == ToHex \/ FromHex \/ ToHsl

ConvSpec == ConvInit /\ [][ConvNext]_vars

\* -------------------------------------------------- parser specification

\* The characters strings are made of: a lower-case digit, an upper-case
\* digit, a decimal digit, a letter that is no hex digit, and '#'.
HexAlphabet == {"a", "F", "7", "g", "#"}

NotAColor == <<"n", "o", "t", "-", "a", "-", "c", "o", "l", "o", "r">>

\* The strings given to hexToRgb: up to MaxHexLen characters, bare or behind a
\* '#', and "not-a-color".
HexInputs ==
    LET bodies == UNION {[1..n -> HexAlphabet] : n \in 0..MaxHexLen}
    IN  bodies \cup {<<"#">> \o t : t \in bodies} \cup {NotAColor}

ParseInit ==
    /\ ExtractInit /\ ConvIdle /\ ClassIdle /\ AppIdle /\ apiKey = TRUE
    /\ hexIn \in HexInputs
    /\ rgbParsed = NULL /\ parseDone = FALSE

ParseHex ==
    /\ ~parseDone
    /\ rgbParsed' = hexToRgb(hexIn)
    /\ parseDone' = TRUE
    /\ UNCHANGED <<extractVars, convVars, classVars, appVars, hexIn>>

ParseNext == ParseHex

ParseSpec == ParseInit /\ [][ParseNext]_vars

\* ---------------------------------------------- classifier specification

\* Hue in whole degrees, as rgbToHsl produces it (360 included).
Hues == 0..360

\* Saturations and lightnesses in hundredths, on and around the thresholds
\* of categorizeColor and isAccentColor.
SatPercents == {0, 17, 18, 19, 44, 45, 46, 50, 100}
LightPercents == {0, 11, 12, 13, 19, 20, 21, 50, 84, 85, 86, 94, 95, 96, 100}

ClassInit ==
    /\ ExtractInit /\ ConvIdle /\ ParseIdle /\ AppIdle /\ apiKey = TRUE
    /\ hslIn \in {[h |-> h, s |-> Frac(sp, 100), l |-> Frac(lp, 100)] :
                     h \in Hues, sp \in SatPercents, lp \in LightPercents}
    /\ categoryOut = "" /\ accentOut = FALSE /\ classDone = FALSE

Classify ==
    /\ ~classDone
    /\ categoryOut' = categorizeColor(hslIn)
    /\ accentOut' = isAccentColor(hslIn)
    /\ classDone' = TRUE
    /\ UNCHANGED <<extractVars, convVars, parseVars, appVars, hslIn>>

ClassNext == Classify

ClassSpec == ClassInit /\ [][ClassNext]_vars

\* ----------------------------------------------------- App specification

\* The image files given to the App: one red pixel, one blue pixel, a row
\* of eleven pixels (ten red, then one blue, which the default stride of 10
\* samples at its first and last pixel), and an image without pixels.
AppImages == {"red", "blue", "row", "empty"}

\* The pixels of the image an object URL stands for, row-major.
PixelsOf(src) ==
    CASE src.file = "red" -> <<Red>>
      [] src.file = "blue" -> <<Blue>>
      [] src.file = "row" -> [k \in 1..11 |-> IF k = 11 THEN Blue ELSE Red]
      [] OTHER -> <<>>

\* slice(0, 5)
TopCount == 5

\* palette.all.slice(0, 5).map(c => c.hex)
TopColors(p) ==
    [k \in 1..Min2(TopCount, Len(p.all)) |-> p.all[k].hex]

\* How a call of analyzePaletteMood with a key can end: the service answers
\* with the JSON asked for, with no text, with text JSON.parse rejects, or
\* generateContent throws.
ServiceOutcomes == {"ok", "empty", "unparsable", "throws"}

\* analyzePaletteMood with JSON.parse outside the try: text that does not
\* parse comes back as a value.
analyzePaletteMoodParseUncaught(colors, key, outcome) ==
    IF ~key THEN NULL
    ELSE IF outcome = "throws" THEN NULL
    ELSE IF outcome = "empty" THEN NULL
    ELSE IF outcome = "unparsable" THEN [colors |-> <<>>]
    ELSE [colors |-> colors]

\* The value analyzePaletteMood resolves with.  The analysis the service
\* returns is represented by the colours it was asked about.
analyzePaletteMood(colors, key, outcome) ==
    IF ~key THEN NULL
    ELSE IF outcome = "throws" THEN NULL
    ELSE IF outcome = "empty" THEN NULL
    ELSE IF outcome = "unparsable" THEN NULL
    ELSE [colors |-> colors]

AppInit ==
    /\ ExtractInit /\ ConvIdle /\ ParseIdle /\ ClassIdle /\ AppIdle
    /\ apiKey \in BOOLEAN

\* An event handler can run: no continuation of a call that resolved at once
\* (no key, line 15 of the service) is waiting in the microtask queue.
EventLoopFree == apiKey \/ aiRequest = NULL

\* processFile with an image file (drop, paste or file input).
ProcessFile ==
    /\ EventLoopFree
    /\ \E img \in AppImages : imageSrc' = [file |-> img]
    /\ isProcessing' = TRUE
    /\ aiAnalysis' = NULL /\ palette' = NULL /\ customColors' = <<>>
    /\ hoverPixel' = NULL /\ selectedPixel' = NULL
    /\ UNCHANGED <<isAnalyzingAi, aiRequest, aiOutcome, apiKey>>
    /\ UNCHANGED <<extractVars, convVars, parseVars, classVars>>

\* handleImageLoad: the img element fires load once for the image accepted;
\* extractColors runs with its default stride and palette size, and a
\* rejection is caught and logged.
HandleImageLoad ==
    /\ EventLoopFree
    /\ imageSrc # NULL /\ isProcessing
    /\ palette' = IF PixelsOf(imageSrc) = <<>>
                  THEN palette
                  ELSE extractColors(Flatten(PixelsOf(imageSrc)),
                                     defaultSampleRate, defaultMaxColors)
    /\ isProcessing' = FALSE
    /\ UNCHANGED <<imageSrc, customColors, hoverPixel, selectedPixel,
                   aiAnalysis, isAnalyzingAi, aiRequest, aiOutcome, apiKey>>
    /\ UNCHANGED <<extractVars, convVars, parseVars, classVars>>

\* handleMouseMove over a pixel of the loaded image.
HandleMouseMove ==
    /\ EventLoopFree
    /\ imageSrc # NULL /\ ~isProcessing
    /\ \E k \in 1..Len(PixelsOf(imageSrc)) :
           LET px == PixelsOf(imageSrc)[k]
               rgb == [r |-> px[1], g |-> px[2], b |-> px[3]]
           IN  hoverPixel' = [hex |-> rgbToHex(rgb), rgb |-> rgb]
    /\ UNCHANGED <<imageSrc, palette, customColors, selectedPixel,
                   isProcessing, aiAnalysis, isAnalyzingAi, aiRequest,
                   aiOutcome, apiKey>>
    /\ UNCHANGED <<extractVars, convVars, parseVars, classVars>>

\* handleImageClick
HandleImageClick ==
    /\ EventLoopFree
    /\ imageSrc # NULL
    /\ selectedPixel' = IF hoverPixel # NULL THEN hoverPixel ELSE selectedPixel
    /\ UNCHANGED <<imageSrc, palette, customColors, hoverPixel, isProcessing,
                   aiAnalysis, isAnalyzingAi, aiRequest, aiOutcome, apiKey>>
    /\ UNCHANGED <<extractVars, convVars, parseVars, classVars>>

\* The duplicate test looking at the entry added last only.
HasHexLast(colors, hex) == colors # <<>> /\ colors[Len(colors)].hex = hex

\* customColors.some(c => c.hex === pixelObj.hex)
HasHex(colors, hex) == \E k \in 1..Len(colors) : colors[k].hex = hex

\* The entry addColorToPalette builds for a picked pixel.
CustomColor(pixelObj) ==
    LET hsl == rgbToHsl(pixelObj.rgb)
    IN  [hex |-> pixelObj.hex, rgb |-> pixelObj.rgb, hsl |-> hsl,
         category |-> categorizeColor(hsl), population |-> 0]

\* addColorToPalette(selectedPixel), from the button shown for a selection.
AddColorToPalette ==
    /\ EventLoopFree
    /\ selectedPixel # NULL
    /\ customColors' = IF HasHex(customColors, selectedPixel.hex)
                       THEN customColors
                       ELSE Append(customColors, CustomColor(selectedPixel))
    /\ UNCHANGED <<imageSrc, palette, hoverPixel, selectedPixel, isProcessing,
                   aiAnalysis, isAnalyzingAi, aiRequest, aiOutcome, apiKey>>
    /\ UNCHANGED <<extractVars, convVars, parseVars, classVars>>

\* removeCustomColor(hex), from the swatch of a custom colour.
RemoveCustomColor ==
    /\ EventLoopFree
    /\ \E j \in 1..Len(customColors) :
           LET KeepsHex(c) == c.hex # customColors[j].hex
           IN  customColors' = SelectSeq(customColors, KeepsHex)
    /\ UNCHANGED <<imageSrc, palette, hoverPixel, selectedPixel, isProcessing,
                   aiAnalysis, isAnalyzingAi, aiRequest, aiOutcome, apiKey>>
    /\ UNCHANGED <<extractVars, convVars, parseVars, classVars>>

\* The Clear button of the custom colours, shown while there are any.
ClearCustomColors ==
    /\ EventLoopFree
    /\ Len(customColors) > 0
    /\ customColors' = <<>>
    /\ UNCHANGED <<imageSrc, palette, hoverPixel, selectedPixel, isProcessing,
                   aiAnalysis, isAnalyzingAi, aiRequest, aiOutcome, apiKey>>
    /\ UNCHANGED <<extractVars, convVars, parseVars, classVars>>

\* The Clear Image button, shown while an image is.
ClearImage ==
    /\ EventLoopFree
    /\ imageSrc # NULL
    /\ imageSrc' = NULL /\ palette' = NULL /\ aiAnalysis' = NULL
    /\ customColors' = <<>> /\ selectedPixel' = NULL /\ hoverPixel' = NULL
    /\ UNCHANGED <<isProcessing, isAnalyzingAi, aiRequest, aiOutcome, apiKey>>
    /\ UNCHANGED <<extractVars, convVars, parseVars, classVars>>

\* handleGeminiAnalysis up to its await, from the button shown while there is
\* a palette and no analysis, and enabled while isAnalyzingAi is false.
HandleGeminiAnalysis ==
    /\ EventLoopFree
    /\ palette # NULL /\ aiAnalysis = NULL /\ ~isAnalyzingAi
    /\ isAnalyzingAi' = TRUE
    /\ aiRequest' = [colors |-> TopColors(palette)]
    /\ UNCHANGED <<imageSrc, palette, customColors, hoverPixel, selectedPixel,
                   isProcessing, aiAnalysis, aiOutcome, apiKey>>
    /\ UNCHANGED <<extractVars, convVars, parseVars, classVars>>

\* handleGeminiAnalysis with setIsAnalyzingAi(false) only after a result.
AnalysisSettlesFlagOnResult ==
    /\ aiRequest # NULL
    /\ \E outcome \in ServiceOutcomes :
           /\ aiAnalysis' = analyzePaletteMood(aiRequest.colors, apiKey, outcome)
           /\ aiOutcome' = IF apiKey THEN outcome ELSE "no_key"
    /\ isAnalyzingAi' = (aiAnalysis' = NULL)
    /\ aiRequest' = NULL
    /\ UNCHANGED <<imageSrc, palette, customColors, hoverPixel, selectedPixel,
                   isProcessing, apiKey>>
    /\ UNCHANGED <<extractVars, convVars, parseVars, classVars>>

\* handleGeminiAnalysis after its await: analyzePaletteMood has resolved.
AnalysisSettles ==
    /\ aiRequest # NULL
    /\ \E outcome \in ServiceOutcomes :
           /\ aiAnalysis' = analyzePaletteMood(aiRequest.colors, apiKey, outcome)
           /\ aiOutcome' = IF apiKey THEN outcome ELSE "no_key"
    /\ isAnalyzingAi' = FALSE
    /\ aiRequest' = NULL
    /\ UNCHANGED <<imageSrc, palette, customColors, hoverPixel, selectedPixel,
                   isProcessing, apiKey>>
    /\ UNCHANGED <<extractVars, convVars, parseVars, classVars>>

AppNext ==
    \/ ProcessFile
    \/ HandleImageLoad
    \/ HandleMouseMove
    \/ HandleImageClick
    \/ AddColorToPalette
    \/ RemoveCustomColor
    \/ ClearCustomColors
    \/ ClearImage
    \/ HandleGeminiAnalysis
    \/ AnalysisSettles

AppSpec == AppInit /\ [][AppNext]_vars

\* The App with every awaited analyzePaletteMood call resolving in the end.
AppLiveSpec == AppInit /\ [][AppNext]_vars /\ WF_vars(AnalysisSettles)

\* ------------------------------------------------- what the claims speak of

Range(seq) == {seq[k] : k \in 1..Len(seq)}

\* The byte offsets of the pixels the sampling loop visits.
SampledOffsets == {n \in 0..(Len(data) - 1) : n % (4 * sampleRate) = 0}

\* The pixel at a byte offset.
PixelAt(n) == <<data[n + 1], data[n + 2], data[n + 3], data[n + 4]>>

Opaque(px) == px[4] >= 200

\* A channel floored to a multiple of 12.
Floor12(c) == c - (c % 12)
Floored(px) == [r |-> Floor12(px[1]), g |-> Floor12(px[2]), b |-> Floor12(px[3])]

\* The sampled opaque pixels that fall into the bucket of `rgb`.
SamplesOf(rgb) ==
    {n \in SampledOffsets : Opaque(PixelAt(n)) /\ Floored(PixelAt(n)) = rgb}

\* The offset at which the bucket of `rgb` was first encountered.
FirstSeen(rgb) == CHOOSE n \in SamplesOf(rgb) : \A m \in SamplesOf(rgb) : n <= m

\* The raster handed to the sampling loop has no pixels.
ZeroRaster ==
    \/ CanvasSide(naturalWidth, naturalWidth, naturalHeight) = 0
    \/ CanvasSide(naturalHeight, naturalWidth, naturalHeight) = 0

RECURSIVE SumCounts(_)
SumCounts(list) ==
    IF list = <<>> THEN 0 ELSE Head(list).count + SumCounts(Tail(list))

\* The raster and parameters of the 2x2 scenario.
Scenario ==
    /\ naturalWidth = 2 /\ naturalHeight = 2
    /\ data = Flatten(<<Red, NearRed, Blue, HalfGreen>>)
    /\ sampleRate = 1 /\ maxColors = 8

\* ------------------------------------------------------------------ claims

\* C1: no two different entries of `all` are at squared RGB distance <= 2500.
C1_Distinct ==
    pc = "resolved" =>
        \A j, k \in 1..Len(result.all) :
            j # k => colorDistanceSq(result.all[j].rgb, result.all[k].rgb) > 2500

\* C1 witness: a palette of two entries from which a bucket within distance
\* 2500 of an accepted one was left out although the palette was not full.
C1_Witness ==
    /\ pc = "resolved"
    /\ Len(result.all) = 2
    /\ Len(result.all) < maxColors
    /\ \E k \in 1..Len(sortedColors) :
           /\ sortedColors[k] \notin Range(distinctColors)
           /\ \E j \in 1..Len(distinctColors) :
                  colorDistanceSq(distinctColors[j], sortedColors[k]) <= 2500

\* C2 as claimed: in the 2x2 scenario the two near-red pixels share a bucket
\* and `all` is a Warm red-family entry of population 2, then a Cool blue
\* entry of population 1.
C2_Original ==
    (Scenario /\ pc = "resolved") =>
        /\ Floored(Red) = Floored(NearRed)
        /\ Len(result.all) = 2
        /\ result.all[1].category = "Warm" /\ result.all[1].population = 2
        /\ result.all[2].category = "Cool" /\ result.all[2].population = 1

\* C2 as amended: in the 2x2 scenario the alpha-128 pixel is dropped, the two
\* near-red pixels fall into different buckets, (252,0,0) and (240,0,0), of
\* population 1 each, the second of which the distinctness filter leaves out,
\* and `all` is the Warm entry (252,0,0) of population 1, then the Cool entry
\* (0,0,252) of population 1.
C2_Amended ==
    (Scenario /\ pc = "resolved") =>
        /\ Len(colorCounts) = 3
        /\ Floored(Red) = [r |-> 252, g |-> 0, b |-> 0]
        /\ Floored(NearRed) = [r |-> 240, g |-> 0, b |-> 0]
        /\ \A k \in 1..3 : colorCounts[k].count = 1
        /\ Len(result.all) = 2
        /\ result.all[1].rgb = [r |-> 252, g |-> 0, b |-> 0]
        /\ result.all[1].category = "Warm" /\ result.all[1].population = 1
        /\ result.all[2].rgb = [r |-> 0, g |-> 0, b |-> 252]
        /\ result.all[2].category = "Cool" /\ result.all[2].population = 1

\* C2 witness: the scenario has been extracted.
C2_Witness == Scenario /\ pc = "resolved" /\ Len(result.all) = 2

\* C3: `all` is ordered by non-increasing population, entries of equal
\* population in the order their buckets were first encountered.
C3_Ordered ==
    pc = "resolved" =>
        \A j, k \in 1..Len(result.all) :
            j < k =>
                \/ result.all[j].population > result.all[k].population
                \/ /\ result.all[j].population = result.all[k].population
                   /\ FirstSeen(result.all[j].rgb) < FirstSeen(result.all[k].rgb)

\* C3 witness: three entries, the first of higher population although its
\* bucket was met after the second's, the last two of equal population.
C3_Witness ==
    /\ pc = "resolved"
    /\ Len(result.all) = 3
    /\ result.all[1].population > result.all[2].population
    /\ FirstSeen(result.all[1].rgb) > FirstSeen(result.all[2].rgb)
    /\ result.all[2].population = result.all[3].population

\* C4: warm, cool and neutral partition `all`: every entry of `all` is in
\* exactly one of them, each holds only entries of `all` in the order of
\* `all`, and their lengths sum to the length of `all`.
C4_Partition ==
    pc = "resolved" =>
        LET all == result.all
            views == <<result.warm, result.cool, result.neutral>>
            InView(v) == SelectSeq(all, LAMBDA c : c \in Range(v))
        IN  /\ \A j \in 1..Len(all) :
                   Cardinality({v \in 1..3 : all[j] \in Range(views[v])}) = 1
            /\ \A v \in 1..3 : views[v] = InView(views[v])
            /\ Len(result.warm) + Len(result.cool) + Len(result.neutral) = Len(all)

\* C4 witness: a palette with a warm, a cool and a neutral entry.
C4_Witness ==
    /\ pc = "resolved"
    /\ Len(result.warm) = 1 /\ Len(result.cool) = 1 /\ Len(result.neutral) = 1

\* C5: `all` never has more entries than the max palette size.
C5_AtMostMax ==
    /\ Len(distinctColors) <= maxColors
    /\ pc = "resolved" => Len(result.all) <= maxColors

\* C5 witness: the filter loop broke off at a full palette with ranked
\* buckets left.
C5_Witness ==
    /\ pc = "resolved"
    /\ Len(result.all) = maxColors
    /\ next <= Len(sortedColors)

\* Every pixel of the raster is the opaque pixel px.
SolidOf(px) ==
    /\ Opaque(px)
    /\ Len(data) > 0
    /\ \A n \in 0..(Len(data) - 1) : n % 4 = 0 => PixelAt(n) = px

\* '#rrggbb' of a colour, digit by digit.
HexOf(rgb) ==
    LET digit == [v \in 0..15 |->
                    <<"0", "1", "2", "3", "4", "5", "6", "7",
                      "8", "9", "a", "b", "c", "d", "e", "f">>[v + 1]]
    IN  <<"#", digit[rgb.r \div 16], digit[rgb.r % 16],
               digit[rgb.g \div 16], digit[rgb.g % 16],
               digit[rgb.b \div 16], digit[rgb.b % 16]>>

\* The number of pixels the sampling loop visits in a raster of n pixels.
Visited(n) == ((n - 1) \div sampleRate) + 1

\* C6: a raster of one solid opaque colour C yields exactly one entry, whose
\* hex is that of C with each channel floored to a multiple of 12 and whose
\* population is the number of pixels the sampling loop visits.
C6_Solid ==
    \A px \in PixelSet :
        (pc = "resolved" /\ SolidOf(px)) =>
            /\ Len(result.all) = 1
            /\ result.all[1].hex = HexOf(Floored(px))
            /\ result.all[1].population = Visited(Len(data) \div 4)

\* C6 witness: a solid raster of four pixels sampled at stride 2, of a colour
\* whose channels are no multiples of 12.
C6_Witness ==
    /\ pc = "resolved"
    /\ SolidOf(NearRed)
    /\ Len(data) = 16 /\ sampleRate = 2
    /\ result.all[1].population = 2
    /\ result.all[1].hex = <<"#", "f", "0", "0", "0", "0", "0">>

\* C7: a raster of zero width or height makes the promise reject; the
\* sampling loop is never entered and no palette is resolved.
C7_ZeroRasterRejects ==
    (pc # "idle" /\ ZeroRaster) =>
        /\ pc = "rejected"
        /\ i = 0 /\ colorCounts = <<>> /\ distinctColors = <<>>
        /\ result = NoPalette

\* C7 witness: an image of zero width and positive height was rejected by
\* getImageData.
C7_Witness ==
    /\ pc = "rejected" /\ error = "IndexSizeError"
    /\ naturalWidth = 0 /\ naturalHeight > 0

\* Every pixel the sampling loop visits has alpha below 200 (none, when the
\* raster has no pixels).
AllSampledTransparent == \A n \in SampledOffsets : ~Opaque(PixelAt(n))

EmptyPalette ==
    /\ result.all = <<>> /\ result.warm = <<>> /\ result.cool = <<>>
    /\ result.neutral = <<>> /\ result.accents = <<>>

\* The sampled pixels of alpha >= 200 the loop has visited so far.
OpaqueVisited == {n \in SampledOffsets : n < i /\ Opaque(PixelAt(n))}

\* C8 as claimed: when every sampled pixel has alpha below 200, or the raster
\* has no pixels to sample, the promise resolves with all five views empty.
\* (A call that got no canvas context is left aside.)
C8_Original ==
    (Settled /\ error # "NoContext" /\ AllSampledTransparent) =>
        (pc = "resolved" /\ EmptyPalette)

\* C8 as amended: when the raster has at least one pixel and every sampled
\* pixel has alpha below 200, the promise resolves with all five views empty;
\* and a pixel of alpha < 200 neither creates a bucket nor increments a
\* count: the counts always total the opaque pixels visited.
C8_Amended ==
    /\ (Settled /\ error # "NoContext" /\ ~ZeroRaster /\ AllSampledTransparent)
           => (pc = "resolved" /\ EmptyPalette)
    /\ pc \in {"sampling", "filtering", "resolved"}
           => SumCounts(colorCounts) = Cardinality(OpaqueVisited)

\* C8 witness: a raster whose only sampled pixel is the alpha-128 one, beside
\* an opaque pixel that the stride skips, resolved with an empty palette.
C8_Witness ==
    /\ pc = "resolved"
    /\ Len(data) = 8 /\ sampleRate = 2
    /\ PixelAt(0) = HalfGreen /\ PixelAt(4) = Red
    /\ EmptyPalette

\* C9 as claimed: the hue rgbToHsl returns is an integer in 0..359.
C9_Original ==
    "hsl" \in convDone => (hslOut.h \in Int /\ 0 <= hslOut.h /\ hslOut.h < 360)

\* C9 as amended: the hue rgbToHsl returns is an integer in 0..360; 360 is
\* produced for a red-dominant colour whose blue exceeds its green by less
\* than 1/120 of the channel spread, such as (255,0,1).
C9_Amended ==
    "hsl" \in convDone => (hslOut.h \in Int /\ 0 <= hslOut.h /\ hslOut.h <= 360)

\* C9 witness: the hue of (255,0,1) is 360.
C9_Witness ==
    /\ "hsl" \in convDone
    /\ rgbIn = [r |-> 255, g |-> 0, b |-> 1]
    /\ hslOut.h = 360

\* C10: hexToRgb(rgbToHex(rgb)) = rgb, and rgbToHex(rgb) is '#' followed by
\* six lowercase hex digits.
C10_RoundTrip ==
    /\ "hex" \in convDone =>
           /\ Len(hexOut) = 7
           /\ hexOut[1] = "#"
           /\ \A k \in 2..7 :
                  hexOut[k] \in {"0", "1", "2", "3", "4", "5", "6", "7", "8",
                                 "9", "a", "b", "c", "d", "e", "f"}
    /\ "back" \in convDone => rgbBack = rgbIn

\* C10 witness: a colour whose hex needs leading zeros came back unchanged.
C10_Witness ==
    /\ "back" \in convDone
    /\ rgbIn = [r |-> 0, g |-> 3, b |-> 255]
    /\ hexOut = <<"#", "0", "0", "0", "3", "f", "f">>
    /\ rgbBack = rgbIn

\* The hex digits of either case, spelled out.
AnyCaseHexDigit ==
    {"0", "1", "2", "3", "4", "5", "6", "7", "8", "9",
     "a", "b", "c", "d", "e", "f", "A", "B", "C", "D", "E", "F"}

\* An optional leading '#' followed by exactly six hex digits.
WellFormedHex(str) ==
    \/ Len(str) = 6 /\ \A k \in 1..6 : str[k] \in AnyCaseHexDigit
    \/ Len(str) = 7 /\ str[1] = "#" /\ \A k \in 2..7 : str[k] \in AnyCaseHexDigit

\* C11: hexToRgb returns null for every string that is not an optional '#'
\* followed by exactly six hex digits of either case, and an RGB with
\* channels in 0..255 for every string of that form.
C11_NullIffMalformed ==
    parseDone =>
        IF WellFormedHex(hexIn)
        THEN /\ rgbParsed # NULL
             /\ rgbParsed.r \in 0..255 /\ rgbParsed.g \in 0..255
             /\ rgbParsed.b \in 0..255
        ELSE rgbParsed = NULL

\* C11 witness: hexToRgb("not-a-color") has returned null.
C11_Witness == parseDone /\ hexIn = NotAColor /\ rgbParsed = NULL

\* Saturation and lightness of the classified HSL, in hundredths.
SatPct == hslIn.s.n
LightPct == hslIn.l.n

\* The rules in order: Neutral first, then Warm, Cool for what remains.
RuleCategory(h, sp, lp) ==
    IF sp <= 18 \/ lp <= 12 \/ lp >= 95 THEN "Neutral"
    ELSE IF h \in (0..89) \cup (315..360) THEN "Warm"
    ELSE "Cool"

\* C12: categorizeColor is first-match-wins: Neutral whenever s <= 0.18 or
\* l <= 0.12 or l >= 0.95 whatever the hue, otherwise Warm for hue in [0,90)
\* or [315,360], otherwise Cool (hue 90 included).
C12_FirstMatchWins ==
    classDone =>
        /\ categoryOut = RuleCategory(hslIn.h, SatPct, LightPct)
        /\ (SatPct = 18 => categoryOut = "Neutral")
        /\ (hslIn.h = 90 => categoryOut # "Warm")

\* C12 witness: saturation exactly 0.18 with a warm hue and a middle
\* lightness has been classified Neutral.
C12_Witness ==
    /\ classDone /\ SatPct = 18 /\ LightPct = 50 /\ hslIn.h = 10
    /\ categoryOut = "Neutral"

\* C13: with s = l = 0.5, categorizeColor returns Warm exactly when h < 90 or
\* h >= 315.
C13_WarmIffHue ==
    (classDone /\ SatPct = 50 /\ LightPct = 50) =>
        (categoryOut = "Warm" <=> (hslIn.h < 90 \/ hslIn.h >= 315))

\* C13 witness: hue 315 with s = l = 0.5 has been classified Warm.
C13_Witness ==
    /\ classDone /\ SatPct = 50 /\ LightPct = 50 /\ hslIn.h = 315
    /\ categoryOut = "Warm"

\* Saturation >= 0.45 and 0.2 <= lightness <= 0.85, on the entry's own HSL.
AccentRule(c) ==
    /\ 100 * c.hsl.s.n >= 45 * c.hsl.s.d
    /\ 100 * c.hsl.l.n >= 20 * c.hsl.l.d
    /\ 100 * c.hsl.l.n <= 85 * c.hsl.l.d

\* Every bucket colour an entry of `all` can carry.
BucketColours ==
    LET levels == {quantize * k : k \in 0..(255 \div quantize)}
    IN  [r : levels, g : levels, b : levels]

\* Some bucket colour is an accent of the given category.
AccentOfCategoryExists(cat) ==
    \E rgb \in BucketColours :
        LET hsl == rgbToHsl(rgb)
        IN  isAccentColor(hsl) /\ categorizeColor(hsl) = cat

AccentsAreTheRuleSubsequence ==
    pc = "resolved" => result.accents = SelectSeq(result.all, AccentRule)

\* C14 as stated: `accents` is the subsequence of `all` of the entries with
\* s >= 0.45 and 0.2 <= l <= 0.85, and an entry can be in `accents` and in
\* any of warm, cool and neutral.
C14_Original ==
    /\ AccentsAreTheRuleSubsequence
    /\ \A cat \in {"Warm", "Cool", "Neutral"} : AccentOfCategoryExists(cat)

\* C14 amended: `accents` is the subsequence of `all`, in the same order, of
\* the entries with s >= 0.45 and 0.2 <= l <= 0.85; the category is not
\* consulted, and every entry of `accents` is also in warm or in cool, never
\* in neutral.
C14_Amended ==
    /\ AccentsAreTheRuleSubsequence
    /\ pc = "resolved" =>
           \A k \in 1..Len(result.accents) :
               /\ result.accents[k].category \in {"Warm", "Cool"}
               /\ \/ result.accents[k] \in Range(result.warm)
                  \/ result.accents[k] \in Range(result.cool)
               /\ result.accents[k] \notin Range(result.neutral)

\* C14 witness: a resolved palette whose accents hold a warm and a cool entry
\* and leave out an entry of `all`.
C14_Witness ==
    /\ pc = "resolved"
    /\ \E k \in 1..Len(result.accents) : result.accents[k].category = "Warm"
    /\ \E k \in 1..Len(result.accents) : result.accents[k].category = "Cool"
    /\ Len(result.accents) < Len(result.all)

\* C15: an invocation's result is the function of its own raster, stride and
\* max palette size, whatever invocations came before it, and its bucket map
\* is empty when its sampling loop starts.
C15_Idempotent ==
    /\ (pc = "sampling" /\ i = 0) => colorCounts = <<>>
    /\ pc = "resolved" => result = extractColors(data, sampleRate, maxColors)

\* C15 witness: an invocation made after an earlier one returned has counted
\* two buckets and resolved.
C15_Witness ==
    /\ calledBefore /\ pc = "resolved"
    /\ Len(colorCounts) >= 2 /\ Len(result.all) >= 2

\* The rank of a bucket: its position in the ranked list.
RankOf(c) == CHOOSE k \in 1..Len(sortedColors) : sortedColors[k] = c

\* The accepted buckets ranked above position k.
AcceptedAbove(k) ==
    {a \in Range(distinctColors) : RankOf(a) < k}

\* The ranked buckets the filter has dealt with: those behind its position,
\* and all of them once the promise has resolved.
Reached ==
    IF pc = "resolved" THEN 1..Len(sortedColors)
    ELSE IF pc = "filtering" THEN 1..(next - 1)
    ELSE {}

\* A reached bucket that was not accepted met a full palette or an accepted,
\* higher-ranked entry within squared distance 2500.
AbsentOnlyForCause ==
    \A k \in Reached :
        sortedColors[k] \notin Range(distinctColors) =>
            \/ Cardinality(AcceptedAbove(k)) >= maxColors
            \/ \E a \in AcceptedAbove(k) :
                   (a.r - sortedColors[k].r) * (a.r - sortedColors[k].r)
                   + (a.g - sortedColors[k].g) * (a.g - sortedColors[k].g)
                   + (a.b - sortedColors[k].b) * (a.b - sortedColors[k].b)
                       <= 2500

\* A step of the pass keeps the ranked list, moves forward by at most one
\* bucket, and changes the accepted list only by appending the bucket it is
\* at; the resolved `all` is the accepted list.
GreedyStep ==
    pc = "filtering" =>
        /\ sortedColors' = sortedColors
        /\ next' \in {next, next + 1}
        /\ \/ distinctColors' = distinctColors
           \/ /\ next <= Len(sortedColors)
              /\ next' = next + 1
              /\ distinctColors' = Append(distinctColors, sortedColors[next])
        /\ pc' = "resolved" =>
               /\ distinctColors' = distinctColors
               /\ Len(result'.all) = Len(distinctColors)
               /\ \A k \in 1..Len(distinctColors) :
                      /\ result'.all[k].rgb.r = distinctColors[k].r
                      /\ result'.all[k].rgb.g = distinctColors[k].g
                      /\ result'.all[k].rgb.b = distinctColors[k].b

\* C17: the distinctness filter is one greedy pass over the ranked list: a
\* ranked bucket is absent from `all` only if the palette was full when it
\* was reached or an already accepted, higher-ranked entry was at squared
\* distance <= 2500; an accepted entry is never removed and a rejected bucket
\* is never reconsidered.
C17_GreedyPass == [](AbsentOnlyForCause) /\ [][GreedyStep]_vars

\* C17 witness: a resolved palette with two entries in which a lower-ranked
\* bucket was rejected for being near an accepted one while the palette had
\* room.
C17_Witness ==
    /\ pc = "resolved"
    /\ Len(distinctColors) >= 2
    /\ \E k \in 1..Len(sortedColors) :
           /\ sortedColors[k] \notin Range(distinctColors)
           /\ Cardinality(AcceptedAbove(k)) < maxColors

\* The sampled pixels with alpha >= 200.
OpaqueSampled == {n \in SampledOffsets : Opaque(PixelAt(n))}

RECURSIVE SumPopulations(_)
SumPopulations(list) ==
    IF list = <<>> THEN 0
    ELSE Head(list).population + SumPopulations(Tail(list))

\* C18: every entry of `all` has channels that are multiples of 12 and a
\* population equal to the number of sampled pixels with alpha >= 200 whose
\* floored channels are the entry's RGB; the populations are positive and
\* their sum does not exceed the number of sampled pixels with alpha >= 200.
C18_Populations ==
    pc = "resolved" =>
        /\ \A k \in 1..Len(result.all) :
               LET e == result.all[k]
               IN  /\ e.rgb.r % 12 = 0 /\ e.rgb.g % 12 = 0 /\ e.rgb.b % 12 = 0
                   /\ e.population = Cardinality(SamplesOf(e.rgb))
                   /\ e.population > 0
        /\ SumPopulations(result.all) <= Cardinality(OpaqueSampled)

\* C18 witness: a resolved palette with an entry counted twice whose
\* populations sum to less than the sampled opaque pixels, a bucket having
\* been filtered out.
C18_Witness ==
    /\ pc = "resolved"
    /\ \E k \in 1..Len(result.all) : result.all[k].population >= 2
    /\ SumPopulations(result.all) < Cardinality(OpaqueSampled)

\* A step of handleGeminiAnalysis: the awaited call appears or goes.
AnalysisStep == aiRequest' # aiRequest

\* C16: a step of handleGeminiAnalysis, the completion of the request
\* included, leaves the palette, the custom colours and every other state but
\* aiAnalysis and isAnalyzingAi alone, and a request that ended without a
\* parsed answer (no key, empty response, request or parse failure) stores
\* null.
C16_AnalysisFrame ==
    [][AnalysisStep =>
           /\ palette' = palette /\ customColors' = customColors
           /\ UNCHANGED <<imageSrc, hoverPixel, selectedPixel, isProcessing>>
           /\ (aiRequest' = NULL /\ aiOutcome' # "ok") => aiAnalysis' = NULL]_vars

\* C16 witness: a request has failed with a palette and a custom colour on
\* display; no analysis is stored.
C16_Witness ==
    /\ aiOutcome = "throws" /\ aiRequest = NULL /\ aiAnalysis = NULL
    /\ palette # NULL /\ customColors # <<>>

\* C19: whenever aiAnalysis is non-null it answers a request made for the
\* palette shown.
C19_AnalysisOfShownPalette ==
    aiAnalysis # NULL =>
        /\ palette # NULL
        /\ aiAnalysis.colors = TopColors(palette)

\* C20: whenever isAnalyzingAi is true it is false again later.
C20_AnalyzingEnds == isAnalyzingAi ~> ~isAnalyzingAi

\* C20 witness: a request the service answered with no text has ended and
\* the flag is false again.
C20_Witness ==
    /\ aiOutcome = "empty" /\ aiRequest = NULL /\ ~isAnalyzingAi

\* The hexes of the custom colours, in order.
CustomHexes == [k \in 1..Len(customColors) |-> customColors[k].hex]

\* No two custom colours share a hex, and each has population 0.
CustomColorsWellFormed ==
    /\ \A j, k \in 1..Len(customColors) :
           customColors[j].hex = customColors[k].hex => j = k
    /\ \A k \in 1..Len(customColors) : customColors[k].population = 0

\* A step that lengthens customColors appends one entry, whose hex was
\* absent: no step adds a hex that is present.
AddOnlyAbsentHex ==
    Len(customColors') > Len(customColors) =>
        /\ Len(customColors') = Len(customColors) + 1
        /\ SubSeq(customColors', 1, Len(customColors)) = customColors
        /\ customColors'[Len(customColors')].hex \notin Range(CustomHexes)

\* C21: after any sequence of add, remove, clear and new-image operations
\* customColors never holds two entries with the same hex, every entry has
\* population 0, and adding a pixel whose hex is present leaves customColors
\* unchanged.
C21_NoDuplicateHex == [](CustomColorsWellFormed) /\ [][AddOnlyAbsentHex]_vars

\* C21 witness: two custom colours are held and the selected pixel is one of
\* them, so the add button is a duplicate add.
C21_Witness ==
    /\ Len(customColors) = 2
    /\ selectedPixel # NULL
    /\ selectedPixel.hex \in Range(CustomHexes)

====
